---------------------------- MODULE Spec2Model ----------------------------
(***************************************************************************)
(* Model of backend/services/egl_calculator.py: the effective glycemic     *)
(* load (eGL) calculator with profile-based risk scoring.                  *)
(*                                                                         *)
(* Python floats are modelled as exact rationals [n |-> numerator,         *)
(* d |-> denominator] kept in lowest terms with d > 0, so that equal        *)
(* values are equal records.  Rounding of IEEE doubles is not modelled.    *)
(* Python ints that are compared with thresholds (age) are rationals with  *)
(* denominator 1.  None is the record None where an object or a number is  *)
(* expected and the string NoneStr where a str is expected; an             *)
(* Optional[list] is None or [items |-> the list].  Text that the code     *)
(* inspects character by character (food names, medication names) is a     *)
(* sequence of one-character strings; the fixed advisory sentences are     *)
(* TLA+ strings.                                                           *)
(* EGLResult.explanation (generate_explanation, lines 420-473) is a        *)
(* formatted narrative of fields already in the result and is left out.    *)
(***************************************************************************)
EXTENDS Integers, Sequences, FiniteSets, TLC

VARIABLES
    foods,      \* the caller's list of NutritionInfo objects
    profile,    \* the caller's ProfileContext object, or None
    score,      \* the caller's float argument (gl_value / score / egl / grams)
    op,         \* the function called last ("none" before any call)
    idx,        \* the index in foods of the food passed to calculate_egl, else 0
    result,     \* what that call returned (None if nothing was returned)
    error,      \* the exception that call raised ("none" if it returned)
    logging,    \* history: whether the calls of this behaviour are recorded
    calls       \* history: the calls made so far, each with what it was given
                \* and what it gave back

vars == <<foods, profile, score, op, idx, result, error, logging, calls>>

\* Python's None, for Optional objects and numbers / for Optional[str]
None == [none |-> TRUE]
NoneStr == "None"

-----------------------------------------------------------------------------
(* Exact arithmetic standing for Python float arithmetic.                  *)

Abs(a) == IF a < 0 THEN -a ELSE a

RECURSIVE GCD(_, _)
GCD(a, b) == IF b = 0 THEN a ELSE GCD(b, a % b)

\* the number n/d in lowest terms (d # 0)
Rat(n, d) ==
    LET g == GCD(Abs(n), Abs(d))
        s == IF d < 0 THEN -1 ELSE 1
    IN  [n |-> (s * n) \div g, d |-> (s * d) \div g]

\* an int used where a float is expected
Num(k) == [n |-> k, d |-> 1]

\* a decimal literal with one / two fractional digits: Dec1(79) is 7.9
Dec1(k) == Rat(k, 10)
Dec2(k) == Rat(k, 100)

RAdd(a, b) ==
    LET g == GCD(a.d, b.d)
    IN  Rat(a.n * (b.d \div g) + b.n * (a.d \div g), a.d * (b.d \div g))

RNeg(a) == [n |-> -a.n, d |-> a.d]

RSub(a, b) == RAdd(a, RNeg(b))

RMul(a, b) ==
    LET g1 == GCD(Abs(a.n), b.d)
        g2 == GCD(Abs(b.n), a.d)
    IN  Rat((a.n \div g1) * (b.n \div g2), (a.d \div g2) * (b.d \div g1))

\* a / b for b # 0
RDiv(a, b) == RMul(a, Rat(b.d, b.n))

RLe(a, b) ==
    LET g == GCD(a.d, b.d)
    IN  a.n * (b.d \div g) <= b.n * (a.d \div g)

RLt(a, b) == ~RLe(b, a)

RGt(a, b) == ~RLe(a, b)

\* Python max(a, b): the first argument unless the second is strictly larger
RMax(a, b) == IF RGt(b, a) THEN b ELSE a

\* Python truthiness of an Optional number: None and 0 are falsy
Truthy(x) == x # None /\ x.n # 0

\* Python truthiness of an Optional[list]: None and [] are falsy
ListTruthy(x) == x # None /\ x.items # <<>>

RECURSIVE RSum(_)
\* Python sum() over a sequence of numbers, starting from 0
RSum(s) == IF s = <<>> THEN Num(0) ELSE RAdd(RSum(SubSeq(s, 1, Len(s) - 1)), s[Len(s)])

-----------------------------------------------------------------------------
(* The macronutrient step functions and the spike classification.          *)

\* variant: the upper bounds are exclusive
calculate_fiber_modifier_strict(fiber_grams) ==
    IF RLt(fiber_grams, Num(2)) THEN Num(0)
    ELSE IF RLt(fiber_grams, Num(5)) THEN Dec2(10)
    ELSE IF RLt(fiber_grams, Num(10)) THEN Dec2(15)
    ELSE Dec2(20)

calculate_fiber_modifier(fiber_grams) ==
    IF RLe(fiber_grams, Num(2)) THEN Num(0)
    ELSE IF RLe(fiber_grams, Num(5)) THEN Dec2(10)
    ELSE IF RLe(fiber_grams, Num(10)) THEN Dec2(15)
    ELSE Dec2(20)

\* variant: the last tier is never reached
calculate_protein_modifier_capped(protein_grams) ==
    IF RLt(protein_grams, Num(5)) THEN Num(0)
    ELSE IF RLt(protein_grams, Num(15)) THEN Dec2(10)
    ELSE Dec2(15)

calculate_protein_modifier(protein_grams) ==
    IF RLt(protein_grams, Num(5)) THEN Num(0)
    ELSE IF RLt(protein_grams, Num(15)) THEN Dec2(10)
    ELSE IF RLt(protein_grams, Num(25)) THEN Dec2(15)
    ELSE Dec2(20)

\* variant: a gram value equal to a threshold stays in the bucket below it
calculate_fat_modifier_inclusive(fat_grams) ==
    IF RLe(fat_grams, Num(5)) THEN Num(0)
    ELSE IF RLe(fat_grams, Num(15)) THEN Dec2(10)
    ELSE Dec2(15)

calculate_fat_modifier(fat_grams) ==
    IF RLt(fat_grams, Num(5)) THEN Num(0)
    ELSE IF RLt(fat_grams, Num(15)) THEN Dec2(10)
    ELSE Dec2(15)

\* variant: the thresholds are exclusive
classify_spike_level_strict(gl_value) ==
    IF RLt(gl_value, Num(10)) THEN "low"
    ELSE IF RLt(gl_value, Num(19)) THEN "moderate"
    ELSE "high"

classify_spike_level(gl_value) ==
    IF RLe(gl_value, Num(10)) THEN "low"
    ELSE IF RLe(gl_value, Num(19)) THEN "moderate"
    ELSE "high"

-----------------------------------------------------------------------------
(* Text: str.lower(), str.title() and the substring test `sub in s`.       *)

UpperCase == <<"A","B","C","D","E","F","G","H","I","J","K","L","M",
               "N","O","P","Q","R","S","T","U","V","W","X","Y","Z">>
LowerCase == <<"a","b","c","d","e","f","g","h","i","j","k","l","m",
               "n","o","p","q","r","s","t","u","v","w","x","y","z">>

IsUpper(c) == \E i \in DOMAIN UpperCase : UpperCase[i] = c
IsLower(c) == \E i \in DOMAIN LowerCase : LowerCase[i] = c
IsCased(c) == IsUpper(c) \/ IsLower(c)

LowerChar(c) ==
    IF IsUpper(c) THEN LowerCase[CHOOSE i \in DOMAIN UpperCase : UpperCase[i] = c] ELSE c
UpperChar(c) ==
    IF IsLower(c) THEN UpperCase[CHOOSE i \in DOMAIN LowerCase : LowerCase[i] = c] ELSE c

\* s.lower()
Lower(s) == [i \in DOMAIN s |-> LowerChar(s[i])]

\* s.title(): a cased character is upper-cased after an uncased one (or at
\* the start) and lower-cased after a cased one
Title(s) ==
    [i \in DOMAIN s |->
        IF i > 1 /\ IsCased(s[i - 1]) THEN LowerChar(s[i]) ELSE UpperChar(s[i])]

\* sub in s
Contains(s, sub) ==
    \E k \in 0 .. (Len(s) - Len(sub)) : SubSeq(s, k + 1, k + Len(sub)) = sub

RECURSIVE Join(_, _)
\* sep.join(parts)
Join(sep, parts) ==
    IF parts = <<>> THEN <<>>
    ELSE IF Len(parts) = 1 THEN parts[1]
    ELSE Join(sep, SubSeq(parts, 1, Len(parts) - 1)) \o sep \o parts[Len(parts)]

\* variant: the names are compared as written
lower_all_verbatim(medications) ==
    IF ListTruthy(medications) THEN medications.items ELSE <<>>

\* [m.lower() for m in medications] under `if medications:`, else no names
lower_all(medications) ==
    IF ListTruthy(medications)
    THEN [i \in DOMAIN medications.items |-> Lower(medications.items[i])]
    ELSE <<>>

metformin   == <<"m","e","t","f","o","r","m","i","n">>
ozempic     == <<"o","z","e","m","p","i","c">>
semaglutide == <<"s","e","m","a","g","l","u","t","i","d","e">>
wegovy      == <<"w","e","g","o","v","y">>

-----------------------------------------------------------------------------
(* ProfileContext and the profile risk adjuster.                           *)

\* variant: prediabetes counts as diabetic
is_diabetic_or_pre(p) == p.diabetes_type \in {"type1", "type2", "prediabetes"}

\* ProfileContext.is_diabetic
is_diabetic(p) == p.diabetes_type \in {"type1", "type2"}

\* ProfileContext.is_prediabetic
is_prediabetic(p) == p.diabetes_type = "prediabetes" \/ p.has_insulin_resistance

classify_risk_level(s, p) ==
    IF p # None /\ is_diabetic(p)
    THEN IF RLe(s, Num(8)) THEN "minimal"
         ELSE IF RLe(s, Num(15)) THEN "low"
         ELSE IF RLe(s, Num(25)) THEN "moderate"
         ELSE IF RLe(s, Num(35)) THEN "high"
         ELSE "very_high"
    ELSE IF RLe(s, Num(10)) THEN "minimal"
         ELSE IF RLe(s, Num(20)) THEN "low"
         ELSE IF RLe(s, Num(30)) THEN "moderate"
         ELSE IF RLe(s, Num(40)) THEN "high"
         ELSE "very_high"

\* variant: the signs of the activity modifiers are flipped
activity_mods_flipped ==
    [x \in {"very_active", "active", "moderate", "light", "sedentary"} |->
        CASE x = "very_active" -> Dec2(15)
          [] x = "active"      -> Dec2(10)
          [] x = "moderate"    -> Dec2(5)
          [] x = "light"       -> Num(0)
          [] x = "sedentary"   -> Dec2(-10)]

\* the activity_mods dictionary
activity_mods ==
    [x \in {"very_active", "active", "moderate", "light", "sedentary"} |->
        CASE x = "very_active" -> Dec2(-15)
          [] x = "active"      -> Dec2(-10)
          [] x = "moderate"    -> Dec2(-5)
          [] x = "light"       -> Num(0)
          [] x = "sedentary"   -> Dec2(10)]

\* one dictionary entry, or nothing
Entry(cond, key, value) == IF cond THEN << <<key, value>> >> ELSE <<>>

\* variant: the modifier of a known activity level is stored even when it is 0
activity_entry_unfiltered(p) ==
    IF p.activity_level # NoneStr /\ p.activity_level # ""
       /\ p.activity_level \in DOMAIN activity_mods
    THEN << <<"activity_level", activity_mods[p.activity_level]>> >>
    ELSE <<>>

\* lines 240-251: the activity_level entry, stored for a known level whose
\* modifier is not 0
activity_entry(p) ==
    IF p.activity_level # NoneStr /\ p.activity_level # ""
       /\ p.activity_level \in DOMAIN activity_mods
       /\ activity_mods[p.activity_level] # Num(0)
    THEN << <<"activity_level", activity_mods[p.activity_level]>> >>
    ELSE <<>>

\* variant: every satisfied BMI tier adds its value to the base
ir_mod_of_additive(p) ==
    RAdd(RAdd(Dec2(15),
              IF Truthy(p.bmi) /\ RGt(p.bmi, Num(25)) THEN Dec2(20) ELSE Num(0)),
         IF Truthy(p.bmi) /\ RGt(p.bmi, Num(30)) THEN Dec2(25) ELSE Num(0))

\* ir_mod: 0.15, replaced by 0.25 or 0.20 according to the BMI
ir_mod_of(p) ==
    IF Truthy(p.bmi) /\ RGt(p.bmi, Num(30)) THEN Dec2(25)
    ELSE IF Truthy(p.bmi) /\ RGt(p.bmi, Num(25)) THEN Dec2(20)
    ELSE Dec2(15)

\* the `modifiers` dictionary as the sequence of its (key, value) items in
\* insertion order
ProfileModifierItems(p) ==
    LET ir == IF p.has_insulin_resistance
              THEN << <<"insulin_resistance", ir_mod_of(p)>> >>
              ELSE <<>>
        dt == IF p.diabetes_type = "type2" THEN << <<"type2_diabetes", Dec2(20)>> >>
              ELSE IF p.diabetes_type = "type1" THEN << <<"type1_diabetes", Dec2(10)>> >>
              ELSE IF p.diabetes_type = "prediabetes" THEN << <<"prediabetes", Dec2(15)>> >>
              ELSE <<>>
        du == IF Truthy(p.diabetes_duration_years)
              THEN IF RGt(p.diabetes_duration_years, Num(10))
                       THEN << <<"diabetes_duration", Dec2(15)>> >>
                   ELSE IF RGt(p.diabetes_duration_years, Num(5))
                       THEN << <<"diabetes_duration", Dec2(10)>> >>
                   ELSE IF RGt(p.diabetes_duration_years, Num(2))
                       THEN << <<"diabetes_duration", Dec2(5)>> >>
                   ELSE <<>>
              ELSE <<>>
        ac == IF Truthy(p.a1c)
              THEN IF RGt(p.a1c, Dec1(80)) THEN << <<"high_a1c", Dec2(20)>> >>
                   ELSE IF RGt(p.a1c, Dec1(70)) THEN << <<"elevated_a1c", Dec2(15)>> >>
                   ELSE IF RGt(p.a1c, Dec1(65)) THEN << <<"borderline_a1c", Dec2(10)>> >>
                   ELSE <<>>
              ELSE <<>>
        al == activity_entry(p)
        ag == IF Truthy(p.age)
              THEN IF RGt(p.age, Num(65)) THEN << <<"age", Dec2(10)>> >>
                   ELSE IF RGt(p.age, Num(55)) THEN << <<"age", Dec2(5)>> >>
                   ELSE <<>>
              ELSE <<>>
        meds_lower == lower_all(p.medications)
        mf == Entry(\E i \in DOMAIN meds_lower : Contains(meds_lower[i], metformin),
                    "metformin", Dec2(-10))
        gl == Entry(\E i \in DOMAIN meds_lower :
                        \/ Contains(meds_lower[i], ozempic)
                        \/ Contains(meds_lower[i], semaglutide)
                        \/ Contains(meds_lower[i], wegovy),
                    "glp1_agonist", Dec2(-15))
    IN  ir \o dt \o du \o ac \o al \o ag \o mf \o gl

\* variant: the total has the opposite sign
calculate_profile_modifiers_negated(p) ==
    LET modifiers == ProfileModifierItems(p)
        total     == RNeg(RSum([i \in DOMAIN modifiers |-> modifiers[i][2]]))
    IN  <<total, modifiers>>

\* returns (total, modifiers)
calculate_profile_modifiers(p) ==
    LET modifiers == ProfileModifierItems(p)
        total     == RSum([i \in DOMAIN modifiers |-> modifiers[i][2]])
    IN  <<total, modifiers>>

generate_profile_warnings(p, risk_score, spike_level) ==
    (IF p.diabetes_type = "type1" /\ spike_level \in {"high", "moderate"}
     THEN <<"As a Type 1 diabetic, discuss carb counting and insulin dosing with your healthcare provider for this meal.">>
     ELSE <<>>)
    \o
    (IF p.diabetes_type = "type2" /\ spike_level = "high"
     THEN <<"This food may cause a significant blood sugar spike. Consider a smaller portion or pairing with protein/fiber.">>
     ELSE <<>>)
    \o
    (IF p.diabetes_type = "type2" /\ Truthy(p.a1c) /\ RGt(p.a1c, Dec1(70))
     THEN <<"Given your A1C level, monitoring blood sugar after this meal is recommended.">>
     ELSE <<>>)
    \o
    (IF p.has_insulin_resistance /\ spike_level = "high"
     THEN <<"With insulin resistance, high-GL foods can be more challenging. Consider alternatives or portion control.">>
     ELSE <<>>)
    \o
    (IF p.diabetes_type = "prediabetes" /\ spike_level \in {"high", "moderate"}
     THEN <<"To help prevent progression to diabetes, limiting high-GL foods is beneficial.">>
     ELSE <<>>)

\* variant: the last k entries are kept
Take_from_end(s, k) == SubSeq(s, IF Len(s) < k THEN 1 ELSE Len(s) - k + 1, Len(s))

\* tips[:k]
Take(s, k) == SubSeq(s, 1, IF Len(s) < k THEN Len(s) ELSE k)

generate_profile_tips(p, nutrition, spike_level) ==
    LET meds_lower == lower_all(p.medications)
        tips ==
            (IF p.activity_level \in {"sedentary", "light"}
             THEN <<"A short walk after eating can help reduce blood sugar spikes by up to 30%.">>
             ELSE <<>>)
            \o
            (IF is_diabetic(p) /\ spike_level = "high"
             THEN <<"Consider eating vegetables or protein first, then carbs - this can reduce spike by 30-50%.">>
             ELSE <<>>)
            \o
            (IF is_diabetic(p)
             THEN <<"Tracking your blood sugar response to this food can help personalize your diet.">>
             ELSE <<>>)
            \o
            (IF p.has_insulin_resistance
             THEN <<"Apple cider vinegar (1-2 tbsp) before meals may help improve insulin sensitivity.">>
             ELSE <<>>)
            \o
            (IF p.has_insulin_resistance /\ RLt(nutrition.fiber, Num(5))
             THEN <<"Adding a fiber supplement or psyllium husk can help slow glucose absorption.">>
             ELSE <<>>)
            \o
            (IF Truthy(p.bmi) /\ RGt(p.bmi, Num(25))
             THEN <<"Even a 5-10% weight loss can significantly improve insulin sensitivity.">>
             ELSE <<>>)
            \o
            (IF \E i \in DOMAIN meds_lower : Contains(meds_lower[i], metformin)
             THEN <<"Taking metformin with meals helps both absorption and blood sugar control.">>
             ELSE <<>>)
    IN  Take(tips, 4)

\* variant: the warnings are decided on the spike level of the adjusted score
RiskScoreResult_adjusted_spike(egl, p, profile_modifier, modifier_breakdown, adjusted_score) ==
    [base_egl           |-> egl,
     adjusted_score     |-> adjusted_score,
     risk_level         |-> classify_risk_level(adjusted_score, p),
     profile_modifier   |-> profile_modifier,
     modifier_breakdown |-> modifier_breakdown,
     warnings           |-> generate_profile_warnings(p, adjusted_score,
                                                      classify_spike_level(adjusted_score)),
     personalized_tips  |-> <<>>]

\* the RiskScoreResult built from the locals of calculate_risk_score
RiskScoreResult(egl, p, profile_modifier, modifier_breakdown, adjusted_score) ==
    [base_egl           |-> egl,
     adjusted_score     |-> adjusted_score,
     risk_level         |-> classify_risk_level(adjusted_score, p),
     profile_modifier   |-> profile_modifier,
     modifier_breakdown |-> modifier_breakdown,
     warnings           |-> generate_profile_warnings(p, adjusted_score,
                                                      classify_spike_level(egl)),
     personalized_tips  |-> <<>>]

\* variant: the load is multiplied by the modifier alone
adjusted_score_of_unshifted(egl, profile_modifier) == RMul(egl, profile_modifier)

\* adjusted_score = egl * (1 + profile_modifier)
adjusted_score_of(egl, profile_modifier) == RMul(egl, RAdd(Num(1), profile_modifier))

\* calculate_risk_score once calculate_profile_modifiers has returned pm
risk_score_with(egl, p, pm) ==
    RiskScoreResult(egl, p, pm[1], pm[2], adjusted_score_of(egl, pm[1]))

calculate_risk_score(egl, p) == risk_score_with(egl, p, calculate_profile_modifiers(p))

-----------------------------------------------------------------------------
(* The advisory generator.                                                 *)

\* variant: the walk is recommended to everyone
walk_advice_always(p) ==
    <<"A 15-minute walk after eating can help manage blood sugar.">>

\* lines 393-394: the walk, recommended unless the profile is diabetic
walk_advice(p) ==
    IF p = None \/ ~is_diabetic(p)
    THEN <<"A 15-minute walk after eating can help manage blood sugar.">>
    ELSE <<>>

generate_recommendations(spike_level, protein, fat, fiber, carbs, food_name, p) ==
    LET severity_word ==
            IF p # None /\ is_diabetic(p)
            THEN (IF spike_level = "high" THEN "significant" ELSE "notable")
            ELSE (IF spike_level = "high" THEN "high" ELSE "moderate")
        headline == "This food has a " \o severity_word \o " insulin spike potential."
    IN  IF spike_level = "high" THEN
            <<headline>>
            \o (IF RLt(protein, Num(10))
                THEN <<"Add a protein source (chicken, fish, eggs, tofu) to slow digestion.">>
                ELSE <<>>)
            \o (IF RLt(fiber, Num(5))
                THEN <<"Pair with fiber-rich vegetables or salad to reduce the spike.">>
                ELSE <<>>)
            \o (IF RLt(fat, Num(5))
                THEN <<"Adding healthy fats (avocado, olive oil, nuts) can help.">>
                ELSE <<>>)
            \o <<"Consider reducing portion size by 25-50%.">>
            \o walk_advice(p)
        ELSE IF spike_level = "moderate" THEN
            <<headline>>
            \o (IF RLt(protein, Num(15))
                THEN <<"Adding more protein would help reduce the spike.">>
                ELSE <<>>)
            \o (IF RLt(fiber, Num(5))
                THEN <<"Adding fiber-rich foods would be beneficial.">>
                ELSE <<>>)
            \o <<"Safe to eat in moderation as part of a balanced meal.">>
        ELSE
            <<"This food has a low insulin spike potential.",
              "Safe to eat freely as part of your healthy diet.">>
            \o (IF RGt(protein, Num(15))
                THEN <<"Great protein content helps maintain stable blood sugar.">>
                ELSE <<>>)
            \o (IF RGt(fiber, Num(5))
                THEN <<"Excellent fiber content for digestive health.">>
                ELSE <<>>)

\* the marker put in front of a personalized tip (a light-bulb emoji and a
\* space in the source)
TipMarker == "(tip) "

-----------------------------------------------------------------------------
(* The glycemic load engine.                                               *)

\* variant: the difference is not clamped at 0
net_carbs_of_unclamped(carbs, fiber) == RSub(carbs, fiber)

\* net_carbs = max(0, carbs - fiber)
net_carbs_of(carbs, fiber) == RMax(Num(0), RSub(carbs, fiber))

\* variant: the load is taken from the glycemic index as a fraction of 1000
base_gl_of_per_mille(gi, net_carbs) == RDiv(RMul(gi, net_carbs), Num(1000))

\* base_gl = (nutrition.gi * net_carbs) / 100
base_gl_of(gi, net_carbs) == RDiv(RMul(gi, net_carbs), Num(100))

\* variant: the modifiers are added
total_modifier_of_additive(fiber_modifier, protein_modifier, fat_modifier) ==
    RAdd(RAdd(fiber_modifier, protein_modifier), fat_modifier)

\* total_modifier = 1 - ((1 - fiber_modifier) * (1 - protein_modifier) * (1 - fat_modifier))
total_modifier_of(fiber_modifier, protein_modifier, fat_modifier) ==
    RSub(Num(1), RMul(RMul(RSub(Num(1), fiber_modifier),
                           RSub(Num(1), protein_modifier)),
                      RSub(Num(1), fat_modifier)))

\* variant: the modifiers amplify the load instead of attenuating it
effective_gl_of_amplified(base_gl, fiber_modifier, protein_modifier, fat_modifier) ==
    RMul(RMul(RMul(base_gl, RAdd(Num(1), fiber_modifier)),
              RAdd(Num(1), protein_modifier)),
         RAdd(Num(1), fat_modifier))

\* effective_gl = base_gl * (1 - fiber_modifier) * (1 - protein_modifier) * (1 - fat_modifier)
effective_gl_of(base_gl, fiber_modifier, protein_modifier, fat_modifier) ==
    RMul(RMul(RMul(base_gl, RSub(Num(1), fiber_modifier)),
              RSub(Num(1), protein_modifier)),
         RSub(Num(1), fat_modifier))

\* variant: the risk score of the previous calculate_egl call is kept and
\* handed out again
risk_score_of_cached(effective_gl, nutrition, p, spike_level) ==
    IF p = None THEN None
    ELSE IF op = "calculate_egl" /\ result.risk_score # None THEN result.risk_score
    ELSE [calculate_risk_score(effective_gl, p) EXCEPT
              !.personalized_tips = generate_profile_tips(p, nutrition, spike_level)]

\* variant: the tips are decided on the portion-scaled fiber
risk_score_of_scaled_fiber(effective_gl, nutrition, p, spike_level) ==
    IF p # None
    THEN [calculate_risk_score(effective_gl, p) EXCEPT
              !.personalized_tips =
                  generate_profile_tips(
                      p,
                      [nutrition EXCEPT !.fiber = RMul(nutrition.fiber, nutrition.portions)],
                      spike_level)]
    ELSE None

\* risk_score = None; if profile: calculate_risk_score(...) with its
\* personalized_tips filled in
risk_score_of(effective_gl, nutrition, p, spike_level) ==
    IF p # None
    THEN [calculate_risk_score(effective_gl, p) EXCEPT
              !.personalized_tips = generate_profile_tips(p, nutrition, spike_level)]
    ELSE None

\* variant: every personalized tip is appended
extend_with_tips_all(recommendations, risk_score) ==
    recommendations
    \o (IF risk_score # None /\ risk_score.personalized_tips # <<>>
        THEN [i \in DOMAIN risk_score.personalized_tips |->
                  TipMarker \o risk_score.personalized_tips[i]]
        ELSE <<>>)

\* recommendations.extend([marker + tip for tip in risk_score.personalized_tips[:2]])
extend_with_tips(recommendations, risk_score) ==
    recommendations
    \o (IF risk_score # None /\ risk_score.personalized_tips # <<>>
        THEN [i \in DOMAIN Take(risk_score.personalized_tips, 2) |->
                  TipMarker \o risk_score.personalized_tips[i]]
        ELSE <<>>)

(* calculate_egl runs straight through; each operator below takes the      *)
(* frame l of local variables assigned so far and adds the next ones.      *)

\* variant: the per-serving values of the argument are scaled in place
egl_scaled_in_place(nutrition, p) ==
    [nutrition |-> [nutrition EXCEPT
                        !.carbs   = RMul(nutrition.carbs, nutrition.portions),
                        !.protein = RMul(nutrition.protein, nutrition.portions),
                        !.fat     = RMul(nutrition.fat, nutrition.portions),
                        !.fiber   = RMul(nutrition.fiber, nutrition.portions)],
     profile   |-> p,
     carbs     |-> RMul(nutrition.carbs, nutrition.portions),
     protein   |-> RMul(nutrition.protein, nutrition.portions),
     fat       |-> RMul(nutrition.fat, nutrition.portions),
     fiber     |-> RMul(nutrition.fiber, nutrition.portions)]

\* lines 488-493: the per-serving values scaled by the portions; the frame
\* starts with the two argument objects, which no later line assigns to
egl_scaled(nutrition, p) ==
    [nutrition |-> nutrition,
     profile   |-> p,
     carbs     |-> RMul(nutrition.carbs, nutrition.portions),
     protein   |-> RMul(nutrition.protein, nutrition.portions),
     fat       |-> RMul(nutrition.fat, nutrition.portions),
     fiber     |-> RMul(nutrition.fiber, nutrition.portions)]

\* lines 495-504: net carbs and the three modifiers
egl_modifiers(l) ==
    l @@ [net_carbs        |-> net_carbs_of(l.carbs, l.fiber),
          fiber_modifier   |-> calculate_fiber_modifier(l.fiber),
          protein_modifier |-> calculate_protein_modifier(l.protein),
          fat_modifier     |-> calculate_fat_modifier(l.fat)]

\* lines 498-499 and 506-507: the base load and the total modifier
egl_base(l) ==
    l @@ [base_gl        |-> base_gl_of(l.nutrition.gi, l.net_carbs),
          total_modifier |-> total_modifier_of(l.fiber_modifier, l.protein_modifier,
                                               l.fat_modifier)]

\* lines 509-510: the effective load
egl_effective(l) ==
    l @@ [effective_gl |-> effective_gl_of(l.base_gl, l.fiber_modifier,
                                           l.protein_modifier, l.fat_modifier)]

\* variant: the two classifications are taken from each other's load
egl_classified_swapped(l) ==
    l @@ [spike_level_before |-> classify_spike_level(l.effective_gl),
          spike_level        |-> classify_spike_level(l.base_gl)]

\* lines 512-514: the two spike levels
egl_classified(l) ==
    l @@ [spike_level_before |-> classify_spike_level(l.base_gl),
          spike_level        |-> classify_spike_level(l.effective_gl)]

\* variant: the risk score is computed from the base load
egl_risk_from_base(l) ==
    l @@ [risk_score |-> risk_score_of(l.base_gl, l.nutrition, l.profile,
                                       l.spike_level)]

\* lines 516-520: the risk score
egl_risk(l) ==
    l @@ [risk_score |-> risk_score_of(l.effective_gl, l.nutrition, l.profile,
                                       l.spike_level)]

\* variant: the recommendations are decided on the per-serving macros
egl_recommendations_per_serving(l) ==
    l @@ [recommendations |->
              extend_with_tips(
                  generate_recommendations(l.spike_level, l.nutrition.protein,
                                           l.nutrition.fat, l.nutrition.fiber,
                                           l.nutrition.carbs, l.nutrition.name, l.profile),
                  l.risk_score)]

\* lines 522-529: the recommendations
egl_recommendations(l) ==
    l @@ [recommendations |->
              extend_with_tips(
                  generate_recommendations(l.spike_level, l.protein, l.fat, l.fiber,
                                           l.carbs, l.nutrition.name, l.profile),
                  l.risk_score)]

\* lines 531-553: the EGLResult built from the locals
EGLResult(l) ==
    [food_name        |-> l.nutrition.name,
     portions         |-> l.nutrition.portions,
     serving_size     |-> l.nutrition.serving_size,
     carbs            |-> l.carbs,
     protein          |-> l.protein,
     fat              |-> l.fat,
     fiber            |-> l.fiber,
     net_carbs        |-> l.net_carbs,
     gi               |-> l.nutrition.gi,
     base_gl          |-> l.base_gl,
     effective_gl     |-> l.effective_gl,
     fiber_modifier   |-> l.fiber_modifier,
     protein_modifier |-> l.protein_modifier,
     fat_modifier     |-> l.fat_modifier,
     total_modifier   |-> l.total_modifier,
     spike_level      |-> l.spike_level,
     spike_level_before_modifiers |-> l.spike_level_before,
     recommendations  |-> l.recommendations,
     risk_score       |-> l.risk_score]

\* the locals of calculate_egl when it returns
egl_frame(nutrition, p) ==
    egl_recommendations(egl_risk(egl_classified(egl_effective(egl_base(
        egl_modifiers(egl_scaled(nutrition, p)))))))

\* returns an EGLResult
calculate_egl(nutrition, p) == EGLResult(egl_frame(nutrition, p))

\* the argument objects as calculate_egl leaves them
nutrition_after_egl(nutrition, p) == egl_frame(nutrition, p).nutrition
profile_after_egl(nutrition, p) == egl_frame(nutrition, p).profile

-----------------------------------------------------------------------------
(* The nutrition normalizer: combining the foods of a meal.                *)

\* variant: the portions are left out of the sum
total_of_unscaled(fs, field) == RSum([i \in DOMAIN fs |-> fs[i][field]])

\* sum(f.<field> * f.portions for f in foods)
total_of(fs, field) == RSum([i \in DOMAIN fs |-> RMul(fs[i][field], fs[i].portions)])

\* variant: the plain mean of the glycemic indices
weighted_gi_of_plain_mean(fs, total_carbs) ==
    IF RGt(total_carbs, Num(0))
    THEN RDiv(RSum([i \in DOMAIN fs |-> fs[i].gi]), Num(Len(fs)))
    ELSE Num(0)

\* variant: the glycemic index of the first food stands for the meal
weighted_gi_of_first(fs, total_carbs) ==
    IF RGt(total_carbs, Num(0)) THEN fs[1].gi ELSE Num(0)

\* the carbohydrate-weighted average GI, 0 when the meal has no carbs
weighted_gi_of(fs, total_carbs) ==
    IF RGt(total_carbs, Num(0))
    THEN RDiv(RSum([i \in DOMAIN fs |-> RMul(RMul(fs[i].gi, fs[i].carbs), fs[i].portions)]),
              total_carbs)
    ELSE Num(0)

\* " + ".join([f.name.title() for f in foods])
meal_name_of(fs) == Join(<<" ", "+", " ">>, [i \in DOMAIN fs |-> Title(fs[i].name)])

\* variant: the combined item keeps the portion count of the first food, so
\* calculate_egl scales the totals by it a second time
combined_of_rescaled(fs) ==
    LET total_carbs == total_of(fs, "carbs")
    IN  [name         |-> meal_name_of(fs),
         gi           |-> weighted_gi_of(fs, total_carbs),
         carbs        |-> total_carbs,
         protein      |-> total_of(fs, "protein"),
         fat          |-> total_of(fs, "fat"),
         fiber        |-> total_of(fs, "fiber"),
         serving_size |-> total_of(fs, "serving_size"),
         portions     |-> fs[1].portions]

\* the `combined` NutritionInfo of the general path
combined_of(fs) ==
    LET total_carbs == total_of(fs, "carbs")
    IN  [name         |-> meal_name_of(fs),
         gi           |-> weighted_gi_of(fs, total_carbs),
         carbs        |-> total_carbs,
         protein      |-> total_of(fs, "protein"),
         fat          |-> total_of(fs, "fat"),
         fiber        |-> total_of(fs, "fiber"),
         serving_size |-> total_of(fs, "serving_size"),
         portions     |-> Num(1)]

\* the value calculate_meal_egl returns for a non-empty list
calculate_meal_egl(fs, p) ==
    IF Len(fs) = 1
    THEN calculate_egl(fs[1], p)
    ELSE calculate_egl(combined_of(fs), p)

\* the argument objects as calculate_meal_egl leaves them: the fast path
\* hands foods[0] to calculate_egl; the general path only reads the foods
\* and hands calculate_egl the new object `combined`
foods_after_meal(fs, p) ==
    IF Len(fs) = 1
    THEN <<nutrition_after_egl(fs[1], p)>>
    ELSE fs
profile_after_meal(fs, p) ==
    IF fs = <<>> THEN p
    ELSE IF Len(fs) = 1 THEN profile_after_egl(fs[1], p)
    ELSE profile_after_egl(combined_of(fs), p)

-----------------------------------------------------------------------------
(* The inputs the calls are checked on.                                    *)

\* the longest food list passed to calculate_meal_egl
MaxFoods == 2

\* the largest whole portion count of a food of the grid
MaxPortions == 2

rice   == <<"r","i","c","e">>
dal    == <<"d","a","l">>
egg    == <<"b","o","i","l","e","d"," ","e","g","g">>
bread  == <<"B","R","E","A","D">>
chia   == <<"c","h","i","a">>

NutritionInfo(name, gi, carbs, protein, fat, fiber, serving_size, portions) ==
    [name |-> name, gi |-> gi, carbs |-> carbs, protein |-> protein, fat |-> fat,
     fiber |-> fiber, serving_size |-> serving_size, portions |-> portions]

\* a grid of single foods around every threshold of the engine; the glycemic
\* index may be negative (the engine does not validate it)
GridFoods ==
    { NutritionInfo(rice, Num(gi), Num(carbs), Num(protein), Num(fat), Num(fiber),
                    Num(100), portions) :
        gi \in {-20, 0, 50, 95}, carbs \in {0, 20, 36}, protein \in {0, 5, 15, 25},
        fat \in {0, 5, 15}, fiber \in {0, 2, 3, 5, 11},
        portions \in {Rat(1, 2)} \cup {Num(k) : k \in 1 .. MaxPortions} }

\* gi 32, carbs 20 g, protein 9 g, fat 0.4 g, fiber 7.9 g, one portion
ScenarioBFood ==
    NutritionInfo(dal, Num(32), Num(20), Num(9), Dec1(4), Dec1(79), Num(100), Num(1))

\* the foods meals are made of
MealFoods ==
    { NutritionInfo(rice,  Num(70), Num(10), Num(2), Num(0), Num(0), Num(50), Num(1)),
      NutritionInfo(dal,   Num(40), Num(30), Num(9), Num(1), Num(8), Num(150), Num(1)),
      NutritionInfo(egg,   Num(50), Num(0), Num(13), Num(11), Num(0), Num(50), Num(2)),
      NutritionInfo(rice,  Num(73), Num(28), Dec1(27), Dec1(3), Dec1(4), Num(100), Num(1)),
      ScenarioBFood,
      NutritionInfo(bread, Num(75), Num(15), Num(3), Num(1), Num(3), Num(30), Num(2)),
      NutritionInfo(chia,  Num(30), Num(8), Num(3), Num(6), Num(10), Num(20), Rat(1, 2)) }

RECURSIVE Lists(_, _)
\* the lists of at most k elements of S
Lists(S, k) ==
    IF k = 0 THEN {<<>>}
    ELSE LET shorter == Lists(S, k - 1)
         IN  shorter \cup {Append(l, x) : l \in {m \in shorter : Len(m) = k - 1}, x \in S}

Meals == Lists(MealFoods, MaxFoods)

ProfileContext(has_insulin_resistance, diabetes_type, diabetes_duration_years, bmi, activity_level, a1c, medications, age) ==
    [has_insulin_resistance |-> has_insulin_resistance,
     diabetes_type |-> diabetes_type,
     diabetes_duration_years |-> diabetes_duration_years,
     bmi |-> bmi, activity_level |-> activity_level, a1c |-> a1c,
     medications |-> medications, age |-> age]

\* ProfileContext(): every field at its default
DefaultProfile == ProfileContext(FALSE, NoneStr, None, None, NoneStr, None, None, None)

List(s) == [items |-> s]

MedMetformin   == <<"M","e","t","f","o","r","m","i","n"," ","X","R">>
MedOzempic     == <<"O","Z","E","M","P","I","C">>
MedWegovy      == <<"w","e","g","o","v","y">>
MedSemaglutide == <<"S","e","m","a","g","l","u","t","i","d","e">>
MedAspirin     == <<"a","s","p","i","r","i","n">>

MedicationLists ==
    { None, List(<<>>), List(<<MedAspirin>>), List(<<MedMetformin>>),
      List(<<MedOzempic, MedWegovy>>), List(<<MedSemaglutide>>),
      List(<<MedAspirin, MedOzempic, MedMetformin>>) }

DiabetesTypes == {NoneStr, "none", "type1", "type2", "prediabetes"}

ActivityLevels ==
    {NoneStr, "", "sedentary", "light", "moderate", "active", "very_active", "athlete"}

\* type 2 diabetes, A1C 8.5, sedentary, nothing else
ScenarioCProfile ==
    ProfileContext(FALSE, "type2", None, None, "sedentary", Dec1(85), None, None)

\* profiles that vary the factors a few at a time, and the extreme ones
ProfileGrid ==
    { [DefaultProfile EXCEPT !.has_insulin_resistance = ir, !.bmi = bmi,
                             !.diabetes_type = dt] :
        ir \in BOOLEAN, bmi \in {None, Num(0), Num(25), Num(27), Num(30), Num(31)},
        dt \in DiabetesTypes }
    \cup
    { [DefaultProfile EXCEPT !.diabetes_type = dt, !.a1c = a1c,
                             !.diabetes_duration_years = du] :
        dt \in DiabetesTypes,
        a1c \in {None, Dec1(65), Dec1(68), Num(7), Dec1(75), Num(8), Dec1(85)},
        du \in {None, Num(0), Num(2), Num(3), Num(5), Dec1(55), Num(10), Num(11)} }
    \cup
    { [DefaultProfile EXCEPT !.activity_level = al, !.age = age, !.medications = meds] :
        al \in ActivityLevels, age \in {None, Num(55), Num(56), Num(65), Num(66)},
        meds \in MedicationLists }
    \cup
    { ScenarioCProfile,
      ProfileContext(TRUE, "type2", Num(11), Num(31), "sedentary", Dec1(85), None, Num(66)),
      ProfileContext(FALSE, NoneStr, None, None, "very_active", None,
                     List(<<MedMetformin, MedOzempic>>), None),
      ProfileContext(TRUE, "type2", None, Num(27), "sedentary", None,
                     List(<<MedMetformin>>), None),
      ProfileContext(TRUE, "prediabetes", None, Num(27), "light", Dec1(68),
                     List(<<MedMetformin>>), Num(60)) }

\* the profiles the food calls are made with
FoodProfiles ==
    { None,
      DefaultProfile,
      ProfileContext(FALSE, "none", None, None, "light", None, None, None),
      ScenarioCProfile,
      ProfileContext(TRUE, "type2", None, Num(27), "sedentary", None,
                     List(<<MedMetformin>>), None),
      ProfileContext(TRUE, "prediabetes", None, Num(27), "light", Dec1(68),
                     List(<<MedMetformin>>), Num(60)) }

\* load values around every classification threshold
ScoreValues ==
    { Num(-5), Num(0), Num(8), Dec1(81), Num(10), Dec1(101), Num(15), Num(19),
      Dec1(191), Num(20), Num(25), Num(30), Dec1(301), Num(35), Num(40), Num(41) }

\* gram values around every threshold of the three macronutrient modifiers
GramValues ==
    { Num(0), Dec1(19), Num(2), Dec1(21), Num(3), Dec1(49), Num(5), Dec1(51),
      Num(6), Dec1(99), Num(10), Dec1(101), Num(11), Dec1(149), Num(15),
      Dec1(151), Dec1(249), Num(25), Dec1(251), Num(60) }

-----------------------------------------------------------------------------
(* The state machine: the caller holds its inputs and calls the functions. *)

InitInputs ==
    \/ /\ foods \in {<<f>> : f \in GridFoods}
       /\ profile \in {None, DefaultProfile}
       /\ score = Num(0)
    \/ /\ foods \in Meals
       /\ profile \in FoodProfiles
       /\ score = Num(0)
    \/ /\ foods = <<>>
       /\ profile \in ProfileGrid \cup {None}
       /\ score \in ScoreValues
    \/ /\ foods = <<>>
       /\ profile = None
       /\ score \in GramValues

NoCallYet ==
    /\ op = "none"
    /\ idx = 0
    /\ result = None
    /\ error = "none"
    /\ calls = {}

Init ==
    /\ InitInputs
    /\ NoCallYet
    /\ logging = FALSE

\* the history of calls, when it is kept
Record(fn, input, res, err) ==
    /\ calls' = IF logging
                THEN calls \cup {[fn |-> fn, input |-> input, profile |-> profile,
                                  result |-> res, error |-> err]}
                ELSE calls
    /\ UNCHANGED logging

\* variant: the empty list is not rejected
meal_raises_never(fs) == FALSE

\* `if not foods: raise ValueError("No foods provided")`
meal_raises(fs) == fs = <<>>

\* calculate_egl(foods[i], profile)
CallCalculateEgl ==
    \E i \in DOMAIN foods :
        /\ op' = "calculate_egl"
        /\ idx' = i
        /\ result' = calculate_egl(foods[i], profile)
        /\ error' = "none"
        /\ foods' = [foods EXCEPT ![i] = nutrition_after_egl(foods[i], profile)]
        /\ profile' = profile_after_egl(foods[i], profile)
        /\ Record("calculate_egl", foods[i], result', error')
        /\ UNCHANGED score

\* calculate_meal_egl(foods, profile)
CallCalculateMealEgl ==
    /\ op' = "calculate_meal_egl"
    /\ idx' = 0
    /\ IF meal_raises(foods)
       THEN /\ result' = None
            /\ error' = "ValueError"
            /\ UNCHANGED <<foods, profile>>
       ELSE /\ result' = calculate_meal_egl(foods, profile)
            /\ error' = "none"
            /\ foods' = foods_after_meal(foods, profile)
            /\ profile' = profile_after_meal(foods, profile)
    /\ Record("calculate_meal_egl", foods, result', error')
    /\ UNCHANGED score

\* classify_spike_level(score)
CallClassifySpikeLevel ==
    /\ op' = "classify_spike_level"
    /\ idx' = 0
    /\ result' = classify_spike_level(score)
    /\ error' = "none"
    /\ UNCHANGED <<foods, profile, score, logging, calls>>

\* classify_risk_level(score, profile)
CallClassifyRiskLevel ==
    /\ op' = "classify_risk_level"
    /\ idx' = 0
    /\ result' = classify_risk_level(score, profile)
    /\ error' = "none"
    /\ UNCHANGED <<foods, profile, score, logging, calls>>

\* calculate_risk_score(score, profile), profile a ProfileContext
CallCalculateRiskScore ==
    /\ profile # None
    /\ op' = "calculate_risk_score"
    /\ idx' = 0
    /\ result' = calculate_risk_score(score, profile)
    /\ error' = "none"
    /\ UNCHANGED <<foods, profile, score, logging, calls>>

\* calculate_fiber_modifier(score)
CallCalculateFiberModifier ==
    /\ op' = "calculate_fiber_modifier"
    /\ idx' = 0
    /\ result' = calculate_fiber_modifier(score)
    /\ error' = "none"
    /\ UNCHANGED <<foods, profile, score, logging, calls>>

\* calculate_protein_modifier(score)
CallCalculateProteinModifier ==
    /\ op' = "calculate_protein_modifier"
    /\ idx' = 0
    /\ result' = calculate_protein_modifier(score)
    /\ error' = "none"
    /\ UNCHANGED <<foods, profile, score, logging, calls>>

\* calculate_fat_modifier(score)
CallCalculateFatModifier ==
    /\ op' = "calculate_fat_modifier"
    /\ idx' = 0
    /\ result' = calculate_fat_modifier(score)
    /\ error' = "none"
    /\ UNCHANGED <<foods, profile, score, logging, calls>>

Next ==
    \/ CallCalculateEgl
    \/ CallCalculateMealEgl
    \/ CallClassifySpikeLevel
    \/ CallClassifyRiskLevel
    \/ CallCalculateRiskScore
    \/ CallCalculateFiberModifier
    \/ CallCalculateProteinModifier
    \/ CallCalculateFatModifier

Spec == Init /\ [][Next]_vars

(* Sequences of calculate_egl / calculate_meal_egl calls on the same       *)
(* inputs, with the history of the calls kept.                             *)

InitLogged ==
    /\ foods \in Meals
    /\ profile \in FoodProfiles
    /\ score = Num(0)
    /\ NoCallYet
    /\ logging = TRUE

NextLogged ==
    \/ CallCalculateEgl
    \/ CallCalculateMealEgl

SpecLogged == InitLogged /\ [][NextLogged]_vars

-----------------------------------------------------------------------------
(* Properties.  A call has returned an EGLResult when Returned holds.      *)

Returned == op \in {"calculate_egl", "calculate_meal_egl"} /\ error = "none"

\* a >= b
RGe(a, b) == RLe(b, a)

\* v <= k and v > k for a number v and an integer k
LeInt(v, k) == v.n <= k * v.d
GtInt(v, k) == v.n > k * v.d

\* C1 (as amended): in every result of calculate_egl whose glycemic index is
\* not negative, effective_gl <= base_gl; with a negative glycemic index the
\* base load is <= 0 and the modifiers move it toward 0, so effective_gl >=
\* base_gl.
C1_EffectiveAtMostBase ==
    Returned =>
        /\ result.gi.n >= 0 => RLe(result.effective_gl, result.base_gl)
        /\ result.gi.n < 0  => RGe(result.effective_gl, result.base_gl)

\* C1 as stated: effective_gl <= base_gl in the result of every call.
C1_Original == Returned => RLe(result.effective_gl, result.base_gl)

C1_Witness ==
    /\ op = "calculate_egl"
    /\ result.gi.n > 0
    /\ result.total_modifier.n > 0
    /\ RLt(result.effective_gl, result.base_gl)

\* C2: calculate_meal_egl on an empty list raises ValueError and returns
\* nothing, whatever the profile.
C2_EmptyMealRaises ==
    (op = "calculate_meal_egl" /\ foods = <<>>) =>
        (error = "ValueError" /\ result = None)

C2_Witness ==
    /\ op = "calculate_meal_egl"
    /\ foods = <<>>
    /\ profile # None
    /\ error = "ValueError"

\* the general N-item path of calculate_meal_egl (lines 572-599) run on fs
GeneralPath(fs, p) == calculate_egl(combined_of(fs), p)

SameLoads(a, b) ==
    /\ a.carbs = b.carbs /\ a.protein = b.protein
    /\ a.fat = b.fat /\ a.fiber = b.fiber
    /\ a.net_carbs = b.net_carbs
    /\ a.base_gl = b.base_gl /\ a.effective_gl = b.effective_gl
    /\ a.fiber_modifier = b.fiber_modifier
    /\ a.protein_modifier = b.protein_modifier
    /\ a.fat_modifier = b.fat_modifier
    /\ a.total_modifier = b.total_modifier
    /\ a.spike_level = b.spike_level
    /\ a.spike_level_before_modifiers = b.spike_level_before_modifiers

\* C3 (as amended): for a single food x the fast path and the general path
\* run on [x] agree on the scaled macros, net carbs, base and effective load,
\* modifiers and spike levels.  They agree on the glycemic index when x's
\* scaled carbs are > 0 (otherwise the fast path reports x.gi and the general
\* path 0), and on portions and serving_size only when x.portions = 1: the
\* fast path reports x.portions and x.serving_size, the general path 1.0 and
\* x.serving_size * x.portions.
C3_FastPathAgreesOnLoads ==
    (op = "calculate_meal_egl" /\ Len(foods) = 1) =>
        LET x == foods[1]
            g == GeneralPath(foods, profile)
        IN  /\ SameLoads(result, g)
            /\ result.gi = x.gi
            /\ g.gi = (IF RGt(RMul(x.carbs, x.portions), Num(0)) THEN x.gi ELSE Num(0))
            /\ result.portions = x.portions
            /\ g.portions = Num(1)
            /\ result.serving_size = x.serving_size
            /\ g.serving_size = RMul(x.serving_size, x.portions)

\* C3 as stated: the two paths agree on all of these fields (here for the
\* foods with a positive glycemic index).
C3_Original ==
    (op = "calculate_meal_egl" /\ Len(foods) = 1 /\ foods[1].gi.n > 0) =>
        LET g == GeneralPath(foods, profile)
        IN  /\ SameLoads(result, g)
            /\ result.gi = g.gi
            /\ result.portions = g.portions
            /\ result.serving_size = g.serving_size

C3_Witness ==
    /\ op = "calculate_meal_egl"
    /\ Len(foods) = 1
    /\ foods[1].portions # Num(1)
    /\ foods[1].carbs = Num(0)
    /\ foods[1].gi # Num(0)
    /\ result.portions = foods[1].portions

RECURSIVE SumCarbs(_)
\* the portion-scaled carbs of the foods
SumCarbs(fs) ==
    IF fs = <<>> THEN Num(0)
    ELSE RAdd(RMul(Head(fs).carbs, Head(fs).portions), SumCarbs(Tail(fs)))

RECURSIVE SumGiCarbs(_)
\* the portion-scaled carbs of the foods, each weighted by its glycemic index
SumGiCarbs(fs) ==
    IF fs = <<>> THEN Num(0)
    ELSE RAdd(RMul(Head(fs).gi, RMul(Head(fs).carbs, Head(fs).portions)),
              SumGiCarbs(Tail(fs)))

IsItem(f, gi, carbs, portions) ==
    f.gi = Num(gi) /\ f.carbs = Num(carbs) /\ f.portions = Num(portions)

\* C4: for a meal of two or more foods the glycemic index of the result is
\* the carbohydrate-weighted average of the foods' indices when the total of
\* the scaled carbs is > 0, and 0, without an error, when it is not; the meal
\* (carbs 10, gi 70, 1 portion), (carbs 30, gi 40, 1 portion) gives 47.5.
C4_WeightedGi ==
    (op = "calculate_meal_egl" /\ Len(foods) >= 2) =>
        /\ error = "none"
        /\ IF GtInt(SumCarbs(foods), 0)
           THEN RMul(result.gi, SumCarbs(foods)) = SumGiCarbs(foods)
           ELSE result.gi = Num(0)
        /\ (Len(foods) = 2 /\ IsItem(foods[1], 70, 10, 1) /\ IsItem(foods[2], 40, 30, 1))
               => result.gi = Dec1(475)

C4_Witness ==
    /\ op = "calculate_meal_egl"
    /\ Len(foods) = 2
    /\ IsItem(foods[1], 70, 10, 1)
    /\ IsItem(foods[2], 40, 30, 1)
    /\ result.gi = Dec1(475)

SpikeOf(v) ==
    IF LeInt(v, 10) THEN "low" ELSE IF LeInt(v, 19) THEN "moderate" ELSE "high"

\* C6: classify_spike_level gives low up to 10, moderate above 10 up to 19
\* and high above 19 (10 is low, 19 is moderate), and calculate_egl classifies
\* base_gl and effective_gl with it.
C6_SpikeLevels ==
    /\ op = "classify_spike_level" =>
           /\ result = SpikeOf(score)
           /\ score = Num(10) => result = "low"
           /\ score = Num(19) => result = "moderate"
    /\ Returned =>
           /\ result.spike_level_before_modifiers = SpikeOf(result.base_gl)
           /\ result.spike_level = SpikeOf(result.effective_gl)

C6_Witness ==
    /\ op = "calculate_egl"
    /\ result.effective_gl = Num(10)
    /\ result.spike_level = "low"
    /\ GtInt(result.base_gl, 10)
    /\ result.spike_level_before_modifiers = "moderate"

\* the risk level of a score s under the upper bounds t[1] .. t[4]
RiskOf(s, t) ==
    IF LeInt(s, t[1]) THEN "minimal"
    ELSE IF LeInt(s, t[2]) THEN "low"
    ELSE IF LeInt(s, t[3]) THEN "moderate"
    ELSE IF LeInt(s, t[4]) THEN "high"
    ELSE "very_high"

\* C7: classify_risk_level uses the bounds 8, 15, 25, 35 when the profile's
\* diabetes type is type1 or type2 and 10, 20, 30, 40 for every other
\* profile, None included.
C7_RiskThresholds ==
    op = "classify_risk_level" =>
        IF profile # None /\ profile.diabetes_type \in {"type1", "type2"}
        THEN result = RiskOf(score, <<8, 15, 25, 35>>)
        ELSE result = RiskOf(score, <<10, 20, 30, 40>>)

C7_Witness ==
    /\ op = "classify_risk_level"
    /\ profile # None
    /\ profile.diabetes_type = "type1"
    /\ score = Dec1(81)
    /\ result = "low"

RECURSIVE SumValues(_)
\* the sum of the values of a sequence of (key, value) items
SumValues(items) ==
    IF items = <<>> THEN Num(0) ELSE RAdd(Head(items)[2], SumValues(Tail(items)))

\* C8: calculate_risk_score(e, profile) returns base_egl = e, profile_modifier
\* = the sum of the values of modifier_breakdown, adjusted_score =
\* e * (1 + profile_modifier) and risk_level = classify_risk_level of the
\* adjusted score under the profile.
C8_RiskScore ==
    op = "calculate_risk_score" =>
        /\ result.base_egl = score
        /\ result.profile_modifier = SumValues(result.modifier_breakdown)
        /\ result.adjusted_score = RAdd(score, RMul(score, result.profile_modifier))
        /\ result.risk_level = classify_risk_level(result.adjusted_score, profile)

C8_Witness ==
    /\ op = "calculate_risk_score"
    /\ score.n > 0
    /\ result.profile_modifier.n < 0
    /\ Len(result.modifier_breakdown) >= 2
    /\ RLt(result.adjusted_score, score)

\* C9: calculate_egl scales carbs, protein, fat and fiber by the portions,
\* takes net_carbs = max(0, carbs - fiber) of the scaled values and base_gl =
\* gi * net_carbs / 100, so base_gl is 0 when the scaled fiber is at least
\* the scaled carbs.
C9_NetCarbsAndBaseLoad ==
    op = "calculate_egl" =>
        LET x == foods[idx]
        IN  /\ result.carbs = RMul(x.carbs, x.portions)
            /\ result.protein = RMul(x.protein, x.portions)
            /\ result.fat = RMul(x.fat, x.portions)
            /\ result.fiber = RMul(x.fiber, x.portions)
            /\ result.net_carbs.n >= 0
            /\ result.net_carbs = (IF RGe(result.fiber, result.carbs) THEN Num(0)
                                   ELSE RSub(result.carbs, result.fiber))
            /\ RMul(result.base_gl, Num(100)) = RMul(x.gi, result.net_carbs)
            /\ RGe(result.fiber, result.carbs) => result.base_gl = Num(0)

C9_Witness ==
    /\ op = "calculate_egl"
    /\ foods[idx].portions # Num(1)
    /\ foods[idx].gi.n > 0
    /\ result.carbs.n > 0
    /\ RGt(result.fiber, result.carbs)
    /\ result.base_gl = Num(0)

\* C10: in every result of calculate_egl, total_modifier = 1 - (1 - fiber
\* modifier)(1 - protein modifier)(1 - fat modifier), effective_gl = base_gl
\* * (1 - total_modifier), and 0 <= total_modifier <= 0.456; the modifiers
\* are not added (the total is below their sum when two of them are not 0).
C10_TotalModifier ==
    Returned =>
        LET f == result.fiber_modifier
            p == result.protein_modifier
            t == result.fat_modifier
            sum == RAdd(f, RAdd(p, t))
        IN  /\ RSub(Num(1), result.total_modifier) =
                   RMul(RSub(Num(1), f), RMul(RSub(Num(1), p), RSub(Num(1), t)))
            /\ result.effective_gl =
                   RMul(result.base_gl, RSub(Num(1), result.total_modifier))
            /\ RLe(Num(0), result.total_modifier)
            /\ RLe(result.total_modifier, Rat(456, 1000))
            /\ Cardinality({m \in {"f", "p", "t"} :
                               (m = "f" /\ f.n # 0) \/ (m = "p" /\ p.n # 0)
                                   \/ (m = "t" /\ t.n # 0)}) >= 2
                   => RLt(result.total_modifier, sum)

C10_Witness ==
    /\ op = "calculate_egl"
    /\ result.total_modifier = Rat(456, 1000)
    /\ result.base_gl.n > 0
    /\ RLt(result.effective_gl, result.base_gl)

\* v >= k and v < k for a number v and an integer k
GeInt(v, k) == v.n >= k * v.d
LtInt(v, k) == v.n < k * v.d

\* C11: calculate_fiber_modifier gives 0 for g <= 2, 0.10 for 2 < g <= 5,
\* 0.15 for 5 < g <= 10 and 0.20 for g > 10, and calculate_egl applies it to
\* the portion-scaled fiber.
C11_FiberModifier ==
    /\ op = "calculate_fiber_modifier" =>
           /\ LeInt(score, 2) => result = Num(0)
           /\ (GtInt(score, 2) /\ LeInt(score, 5)) => result = Dec2(10)
           /\ (GtInt(score, 5) /\ LeInt(score, 10)) => result = Dec2(15)
           /\ GtInt(score, 10) => result = Dec2(20)
    /\ op = "calculate_egl" =>
           LET g == RMul(foods[idx].fiber, foods[idx].portions)
           IN  /\ LeInt(g, 2) => result.fiber_modifier = Num(0)
               /\ (GtInt(g, 2) /\ LeInt(g, 5)) => result.fiber_modifier = Dec2(10)
               /\ (GtInt(g, 5) /\ LeInt(g, 10)) => result.fiber_modifier = Dec2(15)
               /\ GtInt(g, 10) => result.fiber_modifier = Dec2(20)

C11_Witness ==
    /\ op = "calculate_egl"
    /\ foods[idx].fiber = Num(5)
    /\ foods[idx].portions = Num(2)
    /\ result.fiber = Num(10)
    /\ result.fiber_modifier = Dec2(15)

\* C12: calculate_protein_modifier gives 0 for p < 5, 0.10 for 5 <= p < 15,
\* 0.15 for 15 <= p < 25 and 0.20 for p >= 25; calculate_fat_modifier gives 0
\* for f < 5, 0.10 for 5 <= f < 15 and 0.15 for f >= 15.
C12_ProteinAndFatModifiers ==
    /\ op = "calculate_protein_modifier" =>
           /\ LtInt(score, 5) => result = Num(0)
           /\ (GeInt(score, 5) /\ LtInt(score, 15)) => result = Dec2(10)
           /\ (GeInt(score, 15) /\ LtInt(score, 25)) => result = Dec2(15)
           /\ GeInt(score, 25) => result = Dec2(20)
    /\ op = "calculate_fat_modifier" =>
           /\ LtInt(score, 5) => result = Num(0)
           /\ (GeInt(score, 5) /\ LtInt(score, 15)) => result = Dec2(10)
           /\ GeInt(score, 15) => result = Dec2(15)

C12_Witness ==
    /\ op = "calculate_protein_modifier"
    /\ score = Num(25)
    /\ result = Dec2(20)

\* C13: the result of calculate_egl / calculate_meal_egl has a risk_score
\* exactly when a profile was given, and that risk score was computed from
\* the result's own effective_gl.
C13_RiskScoreIffProfile ==
    Returned =>
        IF profile = None
        THEN result.risk_score = None
        ELSE /\ result.risk_score # None
             /\ result.risk_score.base_egl = result.effective_gl

C13_Witness ==
    /\ op = "calculate_meal_egl"
    /\ Len(foods) = 2
    /\ profile # None
    /\ result.risk_score.base_egl = result.effective_gl
    /\ result.effective_gl # result.base_gl

\* the seven personalized tips in the order generate_profile_tips looks at
\* them: activity, diabetes (two), insulin resistance (two), BMI, medication
AllTips ==
    <<"A short walk after eating can help reduce blood sugar spikes by up to 30%.",
      "Consider eating vegetables or protein first, then carbs - this can reduce spike by 30-50%.",
      "Tracking your blood sugar response to this food can help personalize your diet.",
      "Apple cider vinegar (1-2 tbsp) before meals may help improve insulin sensitivity.",
      "Adding a fiber supplement or psyllium husk can help slow glucose absorption.",
      "Even a 5-10% weight loss can significantly improve insulin sensitivity.",
      "Taking metformin with meals helps both absorption and blood sugar control.">>

\* whether tip k is a candidate for the profile and the result r of the call;
\* the per-serving fiber of the food passed is r.fiber / r.portions
TipApplies(k, p, r) ==
    CASE k = 1 -> p.activity_level \in {"sedentary", "light"}
      [] k = 2 -> p.diabetes_type \in {"type1", "type2"} /\ r.spike_level = "high"
      [] k = 3 -> p.diabetes_type \in {"type1", "type2"}
      [] k = 4 -> p.has_insulin_resistance
      [] k = 5 -> p.has_insulin_resistance /\ RLt(r.fiber, RMul(Num(5), r.portions))
      [] k = 6 -> p.bmi # None /\ GtInt(p.bmi, 25)
      [] k = 7 -> /\ p.medications # None
                  /\ \E i \in DOMAIN p.medications.items :
                         Contains(Lower(p.medications.items[i]), metformin)

\* the candidates before tip k
TipsBefore(k, p, r) == Cardinality({j \in 1 .. (k - 1) : TipApplies(j, p, r)})

\* C14: personalized_tips holds at most 4 tips, in the fixed order; a tip is
\* in it exactly when it is a candidate and fewer than 4 candidates come
\* before it, so with more than 4 candidates the later ones are dropped.
C14_TipsCappedAtFour ==
    (Returned /\ profile # None) =>
        LET tips == result.risk_score.personalized_tips
            n    == Cardinality({k \in 1 .. 7 : TipApplies(k, profile, result)})
        IN  /\ Len(tips) <= 4
            /\ Len(tips) = (IF n < 4 THEN n ELSE 4)
            /\ \A k \in 1 .. 7 :
                   (\E i \in DOMAIN tips : tips[i] = AllTips[k])
                       <=> (TipApplies(k, profile, result)
                                /\ TipsBefore(k, profile, result) < 4)
            /\ \A i, j \in DOMAIN tips : \A a, b \in 1 .. 7 :
                   (i < j /\ tips[i] = AllTips[a] /\ tips[j] = AllTips[b]) => a < b

C14_Witness ==
    /\ op = "calculate_egl"
    /\ profile # None
    /\ \A k \in 1 .. 7 : TipApplies(k, profile, result)
    /\ result.risk_score.personalized_tips = SubSeq(AllTips, 1, 4)

RECURSIVE SumScaled(_, _)
\* the sum over the foods of (per-serving value of the field * portions)
SumScaled(fs, field) ==
    IF fs = <<>> THEN Num(0)
    ELSE RAdd(RMul(Head(fs)[field], Head(fs).portions), SumScaled(Tail(fs), field))

\* C15: for a meal of two or more foods, carbs, protein, fat and fiber of the
\* result are the sums of (per-serving value * portions) over the foods, each
\* portion count applied once; portions is 1.0 and serving_size is the sum
\* of (serving_size * portions).
C15_MealTotals ==
    (op = "calculate_meal_egl" /\ Len(foods) >= 2) =>
        /\ result.carbs = SumScaled(foods, "carbs")
        /\ result.protein = SumScaled(foods, "protein")
        /\ result.fat = SumScaled(foods, "fat")
        /\ result.fiber = SumScaled(foods, "fiber")
        /\ result.portions = Num(1)
        /\ result.serving_size = SumScaled(foods, "serving_size")

C15_Witness ==
    /\ op = "calculate_meal_egl"
    /\ Len(foods) = 2
    /\ foods[1].portions = Num(2)
    /\ foods[2].portions = Rat(1, 2)
    /\ result.carbs = Num(34)
    /\ result.serving_size = Num(70)
    /\ result.portions = Num(1)

\* C16: a call of calculate_egl or calculate_meal_egl leaves the food list
\* (length, order and every field of every food) and the profile as they
\* were before the call.
C16_InputsUnchanged ==
    [][(op' \in {"calculate_egl", "calculate_meal_egl"})
           => (foods' = foods /\ profile' = profile)]_vars

C16_Witness ==
    /\ op = "calculate_egl"
    /\ profile # None
    /\ foods[idx].portions = Num(2)
    /\ result.carbs = RMul(foods[idx].carbs, Num(2))
    /\ result.carbs # foods[idx].carbs

\* the entries of a dictionary given as a sequence of (key, value) items
ItemSet(items) == {items[i] : i \in DOMAIN items}

\* C17 (Scenario C): for the profile with type 2 diabetes, A1C 8.5 and a
\* sedentary activity level and nothing else, calculate_risk_score on the
\* load 20 gives the breakdown type2_diabetes +0.20, high_a1c +0.20,
\* activity_level +0.10 and no other entry, the total +0.50, the adjusted
\* score 30 and the risk level high.
C17_ScenarioC ==
    (op = "calculate_risk_score" /\ profile = ScenarioCProfile /\ score = Num(20)) =>
        /\ Len(result.modifier_breakdown) = 3
        /\ ItemSet(result.modifier_breakdown) =
               { <<"type2_diabetes", Dec2(20)>>, <<"high_a1c", Dec2(20)>>,
                 <<"activity_level", Dec2(10)>> }
        /\ result.profile_modifier = Dec2(50)
        /\ result.base_egl = Num(20)
        /\ result.adjusted_score = Num(30)
        /\ result.risk_level = "high"

C17_Witness ==
    /\ op = "calculate_risk_score"
    /\ profile = ScenarioCProfile
    /\ score = Num(20)
    /\ result.adjusted_score = Num(30)
    /\ result.risk_level = "high"

\* |a - b| <= 1/2000: a is b rounded to three decimals
RoundsTo(a, b) ==
    /\ RLe(RSub(a, b), Rat(1, 2000))
    /\ RLe(RSub(b, a), Rat(1, 2000))

\* C18 (Scenario B): for gi 32, carbs 20, protein 9, fat 0.4, fiber 7.9 and
\* one portion, calculate_egl gives net carbs 12.1, base load 3.872, the
\* modifiers 0.15, 0.10 and 0, the total modifier 0.235, the effective load
\* 3.872 * 0.765 (2.962 to three decimals) and the spike level low before
\* and after the modifiers.
C18_ScenarioB ==
    (op = "calculate_egl" /\ foods[idx] = ScenarioBFood) =>
        /\ result.net_carbs = Dec1(121)
        /\ result.base_gl = Rat(3872, 1000)
        /\ result.fiber_modifier = Dec2(15)
        /\ result.protein_modifier = Dec2(10)
        /\ result.fat_modifier = Num(0)
        /\ result.total_modifier = Rat(235, 1000)
        /\ result.effective_gl = RMul(Rat(3872, 1000), Rat(765, 1000))
        /\ RoundsTo(result.effective_gl, Rat(2962, 1000))
        /\ result.spike_level_before_modifiers = "low"
        /\ result.spike_level = "low"

C18_Witness ==
    /\ op = "calculate_egl"
    /\ foods[idx] = ScenarioBFood
    /\ result.base_gl = Rat(3872, 1000)
    /\ RLt(result.effective_gl, Num(3))
    /\ result.spike_level = "low"

\* C19 (as amended): a gram value equal to a threshold of the fiber modifier
\* (2, 5, 10) gets the smaller of the two adjacent reductions; a gram value
\* equal to a threshold of the protein modifier (5, 15, 25) or of the fat
\* modifier (5, 15) gets the larger of the two adjacent reductions.
C19_BoundaryBuckets ==
    /\ op = "calculate_fiber_modifier" =>
           /\ score = Num(2) => result = Num(0)
           /\ score = Num(5) => result = Dec2(10)
           /\ score = Num(10) => result = Dec2(15)
    /\ op = "calculate_protein_modifier" =>
           /\ score = Num(5) => result = Dec2(10)
           /\ score = Num(15) => result = Dec2(15)
           /\ score = Num(25) => result = Dec2(20)
    /\ op = "calculate_fat_modifier" =>
           /\ score = Num(5) => result = Dec2(10)
           /\ score = Num(15) => result = Dec2(15)

\* C19 as stated: a gram value equal to a threshold gets the smaller of the
\* two adjacent reductions in each of the three functions.
C19_Original ==
    /\ op = "calculate_fiber_modifier" =>
           /\ score = Num(2) => result = Num(0)
           /\ score = Num(5) => result = Dec2(10)
           /\ score = Num(10) => result = Dec2(15)
    /\ op = "calculate_protein_modifier" =>
           /\ score = Num(5) => result = Num(0)
           /\ score = Num(15) => result = Dec2(10)
           /\ score = Num(25) => result = Dec2(15)
    /\ op = "calculate_fat_modifier" =>
           /\ score = Num(5) => result = Num(0)
           /\ score = Num(15) => result = Dec2(10)

C19_Witness ==
    /\ op = "calculate_fat_modifier"
    /\ score = Num(15)
    /\ result = Dec2(15)

\* whether the dictionary has the key, and the value it holds for it
HasKey(items, key) == \E i \in DOMAIN items : items[i][1] = key
ValueOf(items, key) == items[CHOOSE i \in DOMAIN items : items[i][1] = key][2]

\* the dictionary holds the key exactly when cond holds, and then with value
HoldsIff(items, key, cond, value) ==
    /\ HasKey(items, key) <=> cond
    /\ cond => ValueOf(items, key) = value

\* v is a number above the integer k / above the decimal k/10
Above(v, k) == v # None /\ GtInt(v, k)
Above10(v, k) == v # None /\ 10 * v.n > k * v.d

\* C20: in the breakdown of calculate_profile_modifiers no key occurs twice
\* and every tiered factor has the value of its highest satisfied tier:
\* insulin_resistance 0.15 / 0.20 (BMI > 25) / 0.25 (BMI > 30);
\* diabetes_duration 0.05 / 0.10 / 0.15 for years > 2 / > 5 / > 10; exactly
\* one of borderline_a1c 0.10 (a1c > 6.5), elevated_a1c 0.15 (> 7.0),
\* high_a1c 0.20 (> 8.0), the highest satisfied; age 0.05 (> 55) / 0.10
\* (> 65); one of type2_diabetes 0.20, type1_diabetes 0.10, prediabetes 0.15.
C20_HighestTierWins ==
    op = "calculate_risk_score" =>
        LET m == result.modifier_breakdown
            p == profile
        IN  /\ \A i, j \in DOMAIN m : m[i][1] = m[j][1] => i = j
            /\ HoldsIff(m, "insulin_resistance", p.has_insulin_resistance,
                        IF Above(p.bmi, 30) THEN Dec2(25)
                        ELSE IF Above(p.bmi, 25) THEN Dec2(20) ELSE Dec2(15))
            /\ HoldsIff(m, "diabetes_duration", Above(p.diabetes_duration_years, 2),
                        IF Above(p.diabetes_duration_years, 10) THEN Dec2(15)
                        ELSE IF Above(p.diabetes_duration_years, 5) THEN Dec2(10)
                        ELSE Dec2(5))
            /\ HoldsIff(m, "high_a1c", Above10(p.a1c, 80), Dec2(20))
            /\ HoldsIff(m, "elevated_a1c",
                        Above10(p.a1c, 70) /\ ~Above10(p.a1c, 80), Dec2(15))
            /\ HoldsIff(m, "borderline_a1c",
                        Above10(p.a1c, 65) /\ ~Above10(p.a1c, 70), Dec2(10))
            /\ HoldsIff(m, "age", Above(p.age, 55),
                        IF Above(p.age, 65) THEN Dec2(10) ELSE Dec2(5))
            /\ HoldsIff(m, "type2_diabetes", p.diabetes_type = "type2", Dec2(20))
            /\ HoldsIff(m, "type1_diabetes", p.diabetes_type = "type1", Dec2(10))
            /\ HoldsIff(m, "prediabetes", p.diabetes_type = "prediabetes", Dec2(15))

C20_Witness ==
    /\ op = "calculate_risk_score"
    /\ profile.has_insulin_resistance
    /\ profile.bmi = Num(31)
    /\ profile.a1c = Dec1(85)
    /\ profile.diabetes_duration_years = Num(11)
    /\ profile.age = Num(66)
    /\ ValueOf(result.modifier_breakdown, "insulin_resistance") = Dec2(25)
    /\ ValueOf(result.modifier_breakdown, "diabetes_duration") = Dec2(15)
    /\ ~HasKey(result.modifier_breakdown, "elevated_a1c")

\* v is a number (not None) that is at most the decimal k/10
AtMost10(v, k) == v # None /\ 10 * v.n <= k * v.d

\* C21: no entry of modifier_breakdown has the value 0; the activity_level
\* key is there exactly for sedentary (+0.10), moderate (-0.05), active
\* (-0.10) and very_active (-0.15), so not for light, for no level or for an
\* unknown level; a1c <= 6.5, age <= 55 and duration <= 2 years add no key.
C21_NoZeroEntries ==
    op = "calculate_risk_score" =>
        LET m == result.modifier_breakdown
            p == profile
        IN  /\ \A i \in DOMAIN m : m[i][2] # Num(0)
            /\ HoldsIff(m, "activity_level",
                        p.activity_level \in {"sedentary", "moderate", "active",
                                              "very_active"},
                        CASE p.activity_level = "sedentary"   -> Dec2(10)
                          [] p.activity_level = "moderate"    -> Dec2(-5)
                          [] p.activity_level = "active"      -> Dec2(-10)
                          [] p.activity_level = "very_active" -> Dec2(-15)
                          [] OTHER -> Num(0))
            /\ (p.a1c = None \/ AtMost10(p.a1c, 65)) =>
                   /\ ~HasKey(m, "borderline_a1c")
                   /\ ~HasKey(m, "elevated_a1c")
                   /\ ~HasKey(m, "high_a1c")
            /\ (p.age = None \/ AtMost10(p.age, 550)) => ~HasKey(m, "age")
            /\ (p.diabetes_duration_years = None
                    \/ AtMost10(p.diabetes_duration_years, 20))
                   => ~HasKey(m, "diabetes_duration")

C21_Witness ==
    /\ op = "calculate_risk_score"
    /\ profile.activity_level = "light"
    /\ profile.age = Num(55)
    /\ profile.medications # None
    /\ result.modifier_breakdown # <<>>
    /\ ~HasKey(result.modifier_breakdown, "activity_level")
    /\ ~HasKey(result.modifier_breakdown, "age")

\* some name of the medication list (None or a list) contains, in any letter
\* case, one of the words
AnyNameHas(medications, words) ==
    /\ medications # None
    /\ \E i \in DOMAIN medications.items : \E w \in words :
           Contains(Lower(medications.items[i]), w)

\* how many entries of the dictionary have the key
KeyCount(items, key) == Cardinality({i \in DOMAIN items : items[i][1] = key})

\* C22: the breakdown holds metformin = -0.10, once, exactly when some
\* medication name contains "metformin" in any letter case, and glp1_agonist
\* = -0.15, once, exactly when some name contains "ozempic", "semaglutide" or
\* "wegovy" in any letter case; both can be there together (-0.25 in all),
\* and with no list or an empty list neither is.
C22_MedicationFlags ==
    op = "calculate_risk_score" =>
        LET m    == result.modifier_breakdown
            meds == profile.medications
        IN  /\ HoldsIff(m, "metformin", AnyNameHas(meds, {metformin}), Dec2(-10))
            /\ HoldsIff(m, "glp1_agonist",
                        AnyNameHas(meds, {ozempic, semaglutide, wegovy}), Dec2(-15))
            /\ KeyCount(m, "metformin") <= 1
            /\ KeyCount(m, "glp1_agonist") <= 1
            /\ (meds = None \/ meds = List(<<>>)) =>
                   (~HasKey(m, "metformin") /\ ~HasKey(m, "glp1_agonist"))
            /\ (KeyCount(m, "metformin") = 1 /\ KeyCount(m, "glp1_agonist") = 1
                    /\ Len(m) = 2)
                   => result.profile_modifier = Dec2(-25)

C22_Witness ==
    /\ op = "calculate_risk_score"
    /\ profile.medications = List(<<MedAspirin, MedOzempic, MedMetformin>>)
    /\ Len(result.modifier_breakdown) = 2
    /\ result.profile_modifier = Dec2(-25)

\* the five warnings in the order generate_profile_warnings looks at them
AllWarnings ==
    <<"As a Type 1 diabetic, discuss carb counting and insulin dosing with your healthcare provider for this meal.",
      "This food may cause a significant blood sugar spike. Consider a smaller portion or pairing with protein/fiber.",
      "Given your A1C level, monitoring blood sugar after this meal is recommended.",
      "With insulin resistance, high-GL foods can be more challenging. Consider alternatives or portion control.",
      "To help prevent progression to diabetes, limiting high-GL foods is beneficial.">>

\* whether rule k is satisfied by the profile and the spike level
WarningApplies(k, p, spike) ==
    CASE k = 1 -> p.diabetes_type = "type1" /\ spike \in {"moderate", "high"}
      [] k = 2 -> p.diabetes_type = "type2" /\ spike = "high"
      [] k = 3 -> p.diabetes_type = "type2" /\ Above10(p.a1c, 70)
      [] k = 4 -> p.has_insulin_resistance /\ spike = "high"
      [] k = 5 -> p.diabetes_type = "prediabetes" /\ spike \in {"moderate", "high"}

\* the warnings are those of the satisfied rules, one each, in rule order
WarningsFollowRules(warnings, p, spike) ==
    /\ Len(warnings) = Cardinality({k \in 1 .. 5 : WarningApplies(k, p, spike)})
    /\ \A k \in 1 .. 5 :
           (\E i \in DOMAIN warnings : warnings[i] = AllWarnings[k])
               <=> WarningApplies(k, p, spike)
    /\ \A i, j \in DOMAIN warnings : \A a, b \in 1 .. 5 :
           (i < j /\ warnings[i] = AllWarnings[a] /\ warnings[j] = AllWarnings[b])
               => a < b

\* C23: the warnings of a risk score are those of the five rules that are
\* satisfied, one per rule, in the rule order, and nothing else; the spike
\* level of the rules is that of the load passed to calculate_risk_score
\* (for calculate_egl: of effective_gl), not of the adjusted score.
C23_WarningRules ==
    /\ op = "calculate_risk_score" =>
           WarningsFollowRules(result.warnings, profile, SpikeOf(score))
    /\ (Returned /\ profile # None) =>
           WarningsFollowRules(result.risk_score.warnings, profile,
                               SpikeOf(result.effective_gl))

C23_Witness ==
    /\ op = "calculate_risk_score"
    /\ profile.diabetes_type = "type2"
    /\ profile.has_insulin_resistance
    /\ SpikeOf(score) = "moderate"
    /\ SpikeOf(result.adjusted_score) = "high"
    /\ result.warnings = <<AllWarnings[3]>>

\* the profile is a type1 / type2 one
Diabetic(p) == p # None /\ p.diabetes_type \in {"type1", "type2"}

\* the sentence when the condition holds, nothing otherwise
Opt(cond, sentence) == IF cond THEN <<sentence>> ELSE <<>>

SpikeSentence(word) == "This food has a " \o word \o " insulin spike potential."

\* the recommendations of a result r up to the last advice of its branch,
\* as the thresholds on the portion-scaled macros of r give them
RecsCore(r, p) ==
    CASE r.spike_level = "high" ->
            <<SpikeSentence(IF Diabetic(p) THEN "significant" ELSE "high")>>
            \o Opt(LtInt(r.protein, 10),
                   "Add a protein source (chicken, fish, eggs, tofu) to slow digestion.")
            \o Opt(LtInt(r.fiber, 5),
                   "Pair with fiber-rich vegetables or salad to reduce the spike.")
            \o Opt(LtInt(r.fat, 5),
                   "Adding healthy fats (avocado, olive oil, nuts) can help.")
            \o <<"Consider reducing portion size by 25-50%.">>
      [] r.spike_level = "moderate" ->
            <<SpikeSentence(IF Diabetic(p) THEN "notable" ELSE "moderate")>>
            \o Opt(LtInt(r.protein, 15),
                   "Adding more protein would help reduce the spike.")
            \o Opt(LtInt(r.fiber, 5), "Adding fiber-rich foods would be beneficial.")
            \o <<"Safe to eat in moderation as part of a balanced meal.">>
      [] r.spike_level = "low" ->
            <<SpikeSentence("low"),
              "Safe to eat freely as part of your healthy diet.">>
            \o Opt(GtInt(r.protein, 15),
                   "Great protein content helps maintain stable blood sugar.")
            \o Opt(GtInt(r.fiber, 5), "Excellent fiber content for digestive health.")

\* C24: the recommendations of a result are never empty; they start with
\* the spike-potential sentence of the spike level (significant / notable for
\* a type1 / type2 profile, high / moderate otherwise, low in the low branch)
\* and go on with the suggestions the portion-scaled macros call for: high
\* branch protein < 10, fiber < 5, fat < 5, then the portion advice; moderate
\* branch protein < 15, fiber < 5, then the moderation advice; low branch the
\* eat-freely advice, then protein > 15, fiber > 5.
C24_Recommendations ==
    Returned =>
        LET recs == result.recommendations
            core == RecsCore(result, profile)
        IN  /\ recs # <<>>
            /\ Len(recs) >= Len(core)
            /\ SubSeq(recs, 1, Len(core)) = core

C24_Witness ==
    /\ op = "calculate_egl"
    /\ foods[idx].portions = Num(2)
    /\ foods[idx].protein = Num(5)
    /\ result.protein = Num(10)
    /\ result.spike_level = "high"
    /\ result.fiber = Num(4)
    /\ result.recommendations[2] =
           "Pair with fiber-rich vegetables or salad to reduce the spike."

WalkSentence == "A 15-minute walk after eating can help manage blood sugar."

\* the sentence is one of the entries
Among(sentence, list) == \E i \in DOMAIN list : list[i] = sentence

\* C25: the generic walk recommendation is never among the recommendations
\* when the profile's diabetes type is type1 or type2, whatever the spike
\* level, and it is among them in the high branch whenever there is no
\* profile or the profile is not diabetic.
C25_WalkSuppressedForDiabetics ==
    Returned =>
        /\ Diabetic(profile) => ~Among(WalkSentence, result.recommendations)
        /\ (~Diabetic(profile) /\ result.spike_level = "high")
               => Among(WalkSentence, result.recommendations)

C25_Witness ==
    /\ Returned
    /\ Diabetic(profile)
    /\ result.spike_level = "high"
    /\ ~Among(WalkSentence, result.recommendations)
    /\ Among("Consider reducing portion size by 25-50%.", result.recommendations)

\* the risk levels in increasing order
RiskRank(level) ==
    CASE level = "minimal"   -> 0
      [] level = "low"       -> 1
      [] level = "moderate"  -> 2
      [] level = "high"      -> 3
      [] level = "very_high" -> 4

\* -1, 0 or 1 as v is negative, zero or positive
Sign(v) == IF v.n < 0 THEN -1 ELSE IF v.n = 0 THEN 0 ELSE 1

\* C26: profile_modifier lies between -0.40 and +1.00, so the factor
\* 1 + profile_modifier is at least 0.60; adjusted_score has the sign of the
\* load, and for the same profile a larger load never gets a lower risk level.
C26_ModifierRange ==
    op = "calculate_risk_score" =>
        /\ RLe(Dec2(-40), result.profile_modifier)
        /\ RLe(result.profile_modifier, Num(1))
        /\ RLe(Dec2(60), RAdd(Num(1), result.profile_modifier))
        /\ Sign(result.adjusted_score) = Sign(score)
        /\ \A larger \in ScoreValues :
               RLe(score, larger) =>
                   RiskRank(result.risk_level)
                       <= RiskRank(calculate_risk_score(larger, profile).risk_level)

C26_Witness ==
    /\ op = "calculate_risk_score"
    /\ result.profile_modifier = Dec2(-40)
    /\ score = Num(35)
    /\ result.adjusted_score = Num(21)
    /\ result.risk_level = "moderate"

\* the spike levels in increasing order
SpikeRank(level) ==
    CASE level = "low"      -> 0
      [] level = "moderate" -> 1
      [] level = "high"     -> 2

\* C27: for a food with a glycemic index >= 0 (and macros >= 0) the spike
\* level after the modifiers is never above the spike level before them, so
\* the two levels differ only when the level dropped.
C27_SpikeNeverRises ==
    (Returned /\ result.gi.n >= 0) =>
        /\ SpikeRank(result.spike_level)
               <= SpikeRank(result.spike_level_before_modifiers)
        /\ result.spike_level # result.spike_level_before_modifiers
               => SpikeRank(result.spike_level)
                      < SpikeRank(result.spike_level_before_modifiers)

C27_Witness ==
    /\ op = "calculate_meal_egl"
    /\ Len(foods) = 2
    /\ result.gi.n > 0
    /\ result.spike_level_before_modifiers = "high"
    /\ result.spike_level = "moderate"

\* the generic recommendations of a result r: its core, then in the high
\* branch the walk sentence unless the profile is diabetic
RecsGeneric(r, p) ==
    RecsCore(r, p) \o Opt(r.spike_level = "high" /\ ~Diabetic(p), WalkSentence)

\* C28: with a profile, the recommendations are the generic ones followed by
\* the first min(2, n) of the n personalized tips, in their order, each with
\* the marker in front; with no profile they are the generic ones alone.
C28_TipsAppended ==
    Returned =>
        LET recs    == result.recommendations
            generic == RecsGeneric(result, profile)
            tips    == IF profile = None THEN <<>>
                       ELSE result.risk_score.personalized_tips
            k       == IF Len(tips) < 2 THEN Len(tips) ELSE 2
        IN  /\ Len(recs) = Len(generic) + k
            /\ SubSeq(recs, 1, Len(generic)) = generic
            /\ \A i \in 1 .. k : recs[Len(generic) + i] = TipMarker \o tips[i]
            /\ profile = None => recs = generic

C28_Witness ==
    /\ op = "calculate_egl"
    /\ profile # None
    /\ Len(result.risk_score.personalized_tips) = 4
    /\ Len(result.recommendations) = Len(RecsGeneric(result, profile)) + 2
    /\ result.recommendations[Len(result.recommendations)]
           = TipMarker \o result.risk_score.personalized_tips[2]

\* the fiber field of the NutritionInfo the last call handed to
\* generate_profile_tips: the food itself, or the combined item of a meal
PassedFiber ==
    IF op = "calculate_egl" THEN foods[idx].fiber
    ELSE IF Len(foods) = 1 THEN foods[1].fiber
    ELSE SumScaled(foods, "fiber")

FiberTip == "Adding a fiber supplement or psyllium husk can help slow glucose absorption."

\* C29: for an insulin-resistant profile with fewer than 4 tips ahead of it,
\* the fiber-supplement tip is given exactly when the per-serving fiber of
\* the food passed in is < 5, whatever the portion-scaled fiber of the
\* result; for a meal of two or more foods the fiber passed in is the fiber
\* of the result.
C29_FiberTipOnPerServingFiber ==
    (Returned /\ profile # None) =>
        /\ (profile.has_insulin_resistance /\ TipsBefore(5, profile, result) < 4)
               => (Among(FiberTip, result.risk_score.personalized_tips)
                       <=> LtInt(PassedFiber, 5))
        /\ ~profile.has_insulin_resistance
               => ~Among(FiberTip, result.risk_score.personalized_tips)
        /\ (op = "calculate_meal_egl" /\ Len(foods) >= 2)
               => (result.fiber = PassedFiber /\ result.portions = Num(1))

C29_Witness ==
    /\ op = "calculate_egl"
    /\ profile # None
    /\ profile.has_insulin_resistance
    /\ foods[idx].fiber = Num(3)
    /\ foods[idx].portions = Num(2)
    /\ result.fiber = Num(6)
    /\ result.fiber_modifier = Dec2(15)
    /\ Among(FiberTip, result.risk_score.personalized_tips)

\* the lists that hold the same foods as fs in some order
OrderingsOf(fs) ==
    { [i \in DOMAIN fs |-> fs[q[i]]] :
        q \in {f \in [DOMAIN fs -> DOMAIN fs] :
                  \A i, j \in DOMAIN fs : f[i] = f[j] => i = j} }

\* a result with its name left out
Unnamed(r) == [r EXCEPT !.food_name = <<>>]

=============================================================================
